---- MODULE Spec2Model ----
(***************************************************************************)
(* Account ledger and overdraft-accrual ("agios") engine of               *)
(* chocapix-server: bars_core/models/bar.py and bars_core/models/account.py*)
(*                                                                         *)
(* Money is kept in cents, agios_factor in hundredths (0.05 is 5), dates   *)
(* as day numbers; an unset overdrawn_since is None.                       *)
(***************************************************************************)
EXTENDS Integers, Sequences, FiniteSets, TLC

\* ---- bounds of the model ----
MaxTx == 3
MaxDay == 2
MaxThreshold == 2
NumProcs == 2

Bars == {"b1"}
Users == {"bar", "u1"}
Customers == {"u1"}
Deltas == {-1000, 1000}
Factors == {0, 5}
Procs == 1..NumProcs

\* ---- program constants ----
None == -1
DefaultThreshold == 2
DefaultFactor == 5
DefaultUser == "bar"

VARIABLES
    bars,         \* ids of the persisted Bar rows
    barsettings,  \* the BarSettings table: a set of rows
    roles,        \* the Role table
    accounts,     \* the Account table: row number = primary key
    log,          \* the transaction log
    today,        \* the calendar date, date.today()
    last,         \* the most recent call: its arguments, what it loaded, its result
    pc,           \* per worker: the position of its request
    snap,         \* per worker: the Account instance it holds in memory
    arg           \* per worker: the primary key of the account it loaded

vars == <<bars, barsettings, roles, accounts, log, today, last, pc, snap, arg>>

Abs(x) == IF x < 0 THEN -x ELSE x

NoRow == [bar |-> "", owner |-> "", money |-> 0, overdrawn_since |-> None, deleted |-> FALSE]

NewAccount(b, u) == [bar |-> b, owner |-> u, money |-> 0, overdrawn_since |-> None, deleted |-> FALSE]

DefaultSettings(b) ==
    [bar |-> b, agios_enabled |-> TRUE, agios_threshold |-> DefaultThreshold, agios_factor |-> DefaultFactor]

SettingsRows(b) == {s \in barsettings : s.bar = b}

SettingsOf(b) == CHOOSE s \in barsettings : s.bar = b

AccountsOf(b, u) == {a \in DOMAIN accounts : accounts[a].bar = b /\ accounts[a].owner = u}

\* a call and its outcome: ret is the value returned, raised says it raised instead
Call(op, a, b, before, ret, raised) ==
    [op |-> op, account |-> a, bar |-> b, before |-> before, ret |-> ret, raised |-> raised]

NoCall == Call("none", 0, "", NoRow, 0, FALSE)

Init ==
    /\ bars = {}
    /\ barsettings = {}
    /\ roles = {}
    /\ accounts = <<>>
    /\ log = <<>>
    /\ today = 0
    /\ last = NoCall
    /\ pc = [p \in Procs |-> "idle"]
    /\ snap = [p \in Procs |-> NoRow]
    /\ arg = [p \in Procs |-> 0]

\* variant: update_or_create, the row is rewritten with the defaults
SettingsReset(b) ==
    (barsettings \ SettingsRows(b)) \cup {DefaultSettings(b)}

\* BarSettings.objects.get_or_create(bar=b)
SettingsGetOrCreate(b) ==
    IF SettingsRows(b) # {} THEN barsettings ELSE barsettings \cup {DefaultSettings(b)}

\* Bar.save
BarSave(b) ==
    /\ bars' = bars \cup {b}
    /\ barsettings' = SettingsGetOrCreate(b)
    /\ last' = Call("bar_save", 0, b, NoRow, 0, FALSE)
    /\ UNCHANGED <<roles, accounts, log, today, pc, snap, arg>>

\* BarSettingsViewSet update
UpdateSettings(b, e, t, f) ==
    /\ SettingsRows(b) # {}
    /\ barsettings' = (barsettings \ SettingsRows(b)) \cup
           {[bar |-> b, agios_enabled |-> e, agios_threshold |-> t, agios_factor |-> f]}
    /\ last' = NoCall
    /\ UNCHANGED <<bars, roles, accounts, log, today, pc, snap, arg>>

\* variant: no unique constraint on the table
NoUniqueCheck(b, u) == FALSE

\* the unique_together = ("bar", "owner") constraint, checked by the insert
UniqueViolated(b, u) == AccountsOf(b, u) # {}

\* Account.save of a new instance: the customer role, then the insert
AccountInsert(b, u) ==
    IF UniqueViolated(b, u) THEN accounts ELSE Append(accounts, NewAccount(b, u))

CustomerRole(b, u) == [name |-> "customer", bar |-> b, user |-> u]

\* AccountViewSet create
CreateAccount(b, u) ==
    /\ b \in bars
    /\ roles' = roles \cup {CustomerRole(b, u)}
    /\ accounts' = AccountInsert(b, u)
    /\ last' = Call("account_create", 0, b, NoRow, 0, UniqueViolated(b, u))
    /\ UNCHANGED <<bars, barsettings, log, today, pc, snap, arg>>

\* AccountViewSet update of the soft-delete flag
SetDeleted(a, v) ==
    /\ a \in DOMAIN accounts
    /\ accounts[a].deleted # v
    /\ accounts' = [accounts EXCEPT ![a].deleted = v]
    /\ last' = NoCall
    /\ UNCHANGED <<bars, barsettings, roles, log, today, pc, snap, arg>>

\* the mutation service rejects a soft-deleted account
Rejected(row) == row.deleted

\* the mutation service: the log entry and the balance, together
Commit(accts, a, type, delta) ==
    [accts EXCEPT ![a].money = accts[a].money + delta]

Entry(a, type, delta) == [type |-> type, account |-> a, delta |-> delta]

\* submit_transaction
Submit(a, d) ==
    /\ a \in DOMAIN accounts
    /\ Len(log) < MaxTx
    /\ IF Rejected(accounts[a])
       THEN /\ UNCHANGED <<accounts, log>>
            /\ last' = Call("submit", a, accounts[a].bar, accounts[a], 0, TRUE)
       ELSE /\ accounts' = Commit(accounts, a, "submit", d)
            /\ log' = Append(log, Entry(a, "submit", d))
            /\ last' = Call("submit", a, accounts[a].bar, accounts[a], d, FALSE)
    /\ UNCHANGED <<bars, barsettings, roles, today, pc, snap, arg>>

\* the calendar date advances
Tick ==
    /\ today < MaxDay
    /\ today' = today + 1
    /\ last' = NoCall
    /\ UNCHANGED <<bars, barsettings, roles, accounts, log, pc, snap, arg>>

\* variant: the abs() is missing
Fee_Signed(money, factor) == (money * factor) \div 100

\* abs(account.money) * agios_factor
Fee(money, factor) == (Abs(money) * factor) \div 100

\* variant: > in place of >=
Due_Strict(s, d, since) == s.agios_enabled /\ d - since > s.agios_threshold

\* line 41: agios_enabled and date.today() - overdrawn_since >= timedelta(agios_threshold)
Due(s, d, since) == s.agios_enabled /\ d - since >= s.agios_threshold

\* variant: money > 0 in place of money >= 0 at line 32
ApplyAgios_StrictPositive(r, s, d1, d2) ==
    IF r.money > 0 /\ r.overdrawn_since # None
    THEN [save |-> TRUE, row |-> [r EXCEPT !.overdrawn_since = None], charge |-> FALSE, delta |-> 0]
    ELSE IF r.money < 0
         THEN LET r1 == IF r.overdrawn_since = None
                        THEN [r EXCEPT !.overdrawn_since = d1] ELSE r
              IN [save |-> r.overdrawn_since = None,
                  row |-> r1,
                  charge |-> s.agios_enabled /\ d2 - r1.overdrawn_since >= s.agios_threshold,
                  delta |-> (Abs(r.money) * s.agios_factor) \div 100]
         ELSE [save |-> FALSE, row |-> r, charge |-> FALSE, delta |-> 0]

\* variant: elif in place of if at line 41, a run that sets the date never charges
ApplyAgios_Elif(r, s, d1, d2) ==
    IF r.money >= 0 /\ r.overdrawn_since # None
    THEN [save |-> TRUE, row |-> [r EXCEPT !.overdrawn_since = None], charge |-> FALSE, delta |-> 0]
    ELSE IF r.money < 0
         THEN IF r.overdrawn_since = None
              THEN [save |-> TRUE, row |-> [r EXCEPT !.overdrawn_since = d1],
                    charge |-> FALSE, delta |-> 0]
              ELSE [save |-> FALSE, row |-> r,
                    charge |-> s.agios_enabled /\ d2 - r.overdrawn_since >= s.agios_threshold,
                    delta |-> (Abs(r.money) * s.agios_factor) \div 100]
         ELSE [save |-> FALSE, row |-> r, charge |-> FALSE, delta |-> 0]

\* variant: a charging run restarts the grace clock, clearing the date
ApplyAgios_ClearOnCharge(r, s, d1, d2) ==
    IF r.money >= 0 /\ r.overdrawn_since # None
    THEN [save |-> TRUE, row |-> [r EXCEPT !.overdrawn_since = None], charge |-> FALSE, delta |-> 0]
    ELSE IF r.money < 0
         THEN LET r1 == IF r.overdrawn_since = None
                        THEN [r EXCEPT !.overdrawn_since = d1] ELSE r
                  due == s.agios_enabled /\ d2 - r1.overdrawn_since >= s.agios_threshold
              IN [save |-> r.overdrawn_since = None \/ due,
                  row |-> IF due THEN [r EXCEPT !.overdrawn_since = None] ELSE r1,
                  charge |-> due,
                  delta |-> (Abs(r.money) * s.agios_factor) \div 100]
         ELSE [save |-> FALSE, row |-> r, charge |-> FALSE, delta |-> 0]

\* Bar.apply_agios on the in-memory instance r, under settings s; d1 and d2
\* are the two readings of date.today() (lines 38 and 41)
ApplyAgios(r, s, d1, d2) ==
    IF r.money >= 0 /\ r.overdrawn_since # None
    THEN [save |-> TRUE, row |-> [r EXCEPT !.overdrawn_since = None], charge |-> FALSE, delta |-> 0]
    ELSE IF r.money < 0
         THEN LET r1 == IF r.overdrawn_since = None
                        THEN [r EXCEPT !.overdrawn_since = d1] ELSE r
              IN [save |-> r.overdrawn_since = None,
                  row |-> r1,
                  charge |-> Due(s, d2, r1.overdrawn_since),
                  delta |-> Fee(r.money, s.agios_factor)]
         ELSE [save |-> FALSE, row |-> r, charge |-> FALSE, delta |-> 0]

\* variant: the account.save() of line 34 is missing, a cleared date is not written
Saved_NoClear(accts, a, res) ==
    IF res.save /\ res.row.overdrawn_since # None THEN [accts EXCEPT ![a] = res.row] ELSE accts

\* account.save() of an existing row writes every field of the instance
Saved(accts, a, res) == IF res.save THEN [accts EXCEPT ![a] = res.row] ELSE accts

\* the effect of apply_agios(account) where account is the instance r of row a
Agios(a, r, d2) ==
    LET s == SettingsOf(accounts[a].bar)
        res == ApplyAgios(r, s, today, d2)
        saved == Saved(accounts, a, res)
    IN /\ d2 \in {today, today + 1}
       /\ d2 <= MaxDay
       /\ d2 # today => (r.money < 0 /\ r.overdrawn_since = None)
       /\ today' = d2
       /\ IF ~res.charge
          THEN /\ accounts' = saved
               /\ log' = log
               /\ last' = Call("apply_agios", a, accounts[a].bar, r, 0, FALSE)
          ELSE IF Rejected(saved[a])
               THEN /\ accounts' = saved
                    /\ log' = log
                    /\ last' = Call("apply_agios", a, accounts[a].bar, r, 0, TRUE)
               ELSE /\ accounts' = Commit(saved, a, "agios", -res.delta)
                    /\ log' = Append(log, Entry(a, "agios", -res.delta))
                    /\ last' = Call("apply_agios", a, accounts[a].bar, r, res.delta, FALSE)

\* run_accrual: the account is loaded and handed to apply_agios at once
RunAccrual(a, d2) ==
    /\ a \in DOMAIN accounts
    /\ Len(log) < MaxTx
    /\ Agios(a, accounts[a], d2)
    /\ UNCHANGED <<bars, barsettings, roles, pc, snap, arg>>

\* one customer account: balance mutations and accrual runs, each call at once
Next ==
    \/ \E b \in Bars : BarSave(b)
    \/ \E b \in Bars, e \in BOOLEAN, t \in 0..MaxThreshold, f \in Factors : UpdateSettings(b, e, t, f)
    \/ \E b \in Bars, u \in Customers : CreateAccount(b, u)
    \/ \E a \in DOMAIN accounts, v \in BOOLEAN : SetDeleted(a, v)
    \/ \E a \in DOMAIN accounts, d \in Deltas : Submit(a, d)
    \/ Tick
    \/ \E a \in DOMAIN accounts, d2 \in 0..MaxDay : RunAccrual(a, d2)

Spec == Init /\ [][Next]_vars

\* ---- requests of concurrent workers: each holds its own instance ----

\* the caller of apply_agios loads the account
Load(p, a) ==
    /\ pc[p] = "idle"
    /\ a \in DOMAIN accounts
    /\ pc' = [pc EXCEPT ![p] = "loaded"]
    /\ snap' = [snap EXCEPT ![p] = accounts[a]]
    /\ arg' = [arg EXCEPT ![p] = a]
    /\ UNCHANGED <<bars, barsettings, roles, accounts, log, today, last>>

\* apply_agios on the instance loaded earlier
Apply(p, d2) ==
    /\ pc[p] = "loaded"
    /\ Len(log) < MaxTx
    /\ Agios(arg[p], snap[p], d2)
    /\ pc' = [pc EXCEPT ![p] = "idle"]
    /\ snap' = [snap EXCEPT ![p] = NoRow]
    /\ arg' = [arg EXCEPT ![p] = 0]
    /\ UNCHANGED <<bars, barsettings, roles>>

\* get_default_account: Account.objects.get_or_create(owner=user, bar=bar),
\* first half: the lookup
GocGet(p, b) ==
    /\ pc[p] = "idle"
    /\ b \in bars
    /\ IF AccountsOf(b, DefaultUser) # {}
       THEN /\ last' = Call("get_default_account", 0, b, NoRow,
                            CHOOSE a \in AccountsOf(b, DefaultUser) : TRUE, FALSE)
            /\ UNCHANGED <<pc, snap>>
       ELSE /\ pc' = [pc EXCEPT ![p] = "create"]
            /\ snap' = [snap EXCEPT ![p] = NewAccount(b, DefaultUser)]
            /\ last' = last
    /\ UNCHANGED <<bars, barsettings, roles, accounts, log, today, arg>>

\* get_or_create, second half: the insert in a savepoint, and the lookup
\* again when the insert hits the unique constraint
GocCreate(p) ==
    LET b == snap[p].bar
    IN /\ pc[p] = "create"
       /\ IF UniqueViolated(b, DefaultUser)
          THEN /\ UNCHANGED <<roles, accounts>>
               /\ last' = Call("get_default_account", 0, b, NoRow,
                               CHOOSE a \in AccountsOf(b, DefaultUser) : TRUE, FALSE)
          ELSE /\ roles' = roles \cup {CustomerRole(b, DefaultUser)}
               /\ accounts' = AccountInsert(b, DefaultUser)
               /\ last' = Call("get_default_account", 0, b, NoRow, Len(accounts) + 1, FALSE)
       /\ pc' = [pc EXCEPT ![p] = "idle"]
       /\ snap' = [snap EXCEPT ![p] = NoRow]
       /\ UNCHANGED <<bars, barsettings, log, today, arg>>

\* balance mutations and accrual runs, interleaved
NextConc ==
    \/ \E b \in Bars : BarSave(b)
    \/ \E b \in Bars, u \in Customers : CreateAccount(b, u)
    \/ \E a \in DOMAIN accounts, d \in Deltas : Submit(a, d)
    \/ Tick
    \/ \E p \in Procs, a \in DOMAIN accounts : Load(p, a)
    \/ \E p \in Procs, d2 \in 0..MaxDay : Apply(p, d2)

SpecConc == Init /\ [][NextConc]_vars

\* account creations and default-account lookups only, interleaved
NextCreate ==
    \/ \E b \in Bars : BarSave(b)
    \/ \E b \in Bars, u \in Users : CreateAccount(b, u)
    \/ \E a \in DOMAIN accounts, v \in BOOLEAN : SetDeleted(a, v)
    \/ \E p \in Procs, b \in Bars : GocGet(p, b)
    \/ \E p \in Procs : GocCreate(p)

SpecCreate == Init /\ [][NextCreate]_vars

\* ---------------------------------------------------------------------
\* Properties
\* ---------------------------------------------------------------------

RECURSIVE SumDeltas(_, _)
SumDeltas(l, a) ==
    IF l = <<>> THEN 0
    ELSE (IF Head(l).account = a THEN Head(l).delta ELSE 0) + SumDeltas(Tail(l), a)

\* the step is a completed apply_agios call on account a
RanOn(a) == last'.op = "apply_agios" /\ last'.account = a

\* the step appended one agios entry of the given amount against a
Charged(a, amount) == log' = Append(log, [type |-> "agios", account |-> a, delta |-> -amount])

\* C1: no committed delta is lost: under any interleaving of submit_transaction
\* calls and accrual runs, every balance equals the initial balance (0) plus
\* the sum of the deltas logged against the account.
C1_NoLostDelta ==
    \A a \in DOMAIN accounts : accounts[a].money = SumDeltas(log, a)

\* C2 as stated: in every state overdrawn_since is set exactly while the
\* balance is negative (set and cleared at the instant the sign changes).
C2_DateIffNegative ==
    \A a \in DOMAIN accounts : (accounts[a].overdrawn_since # None) <=> (accounts[a].money < 0)

\* C2 amended: overdrawn_since changes only inside apply_agios, and right
\* after a run it is set exactly when the balance the run evaluated was
\* negative; balance mutations leave it alone, so it is stale until the next run.
C2_DateFollowsRuns ==
    [][\A a \in DOMAIN accounts :
        /\ (accounts'[a].overdrawn_since # accounts[a].overdrawn_since) => RanOn(a)
        /\ RanOn(a) => ((accounts'[a].overdrawn_since # None) <=> (accounts[a].money < 0))]_vars

C2_Witness ==
    \E a \in DOMAIN accounts :
        /\ last.op = "submit" /\ last.account = a /\ ~last.raised
        /\ accounts[a].money >= 0
        /\ accounts[a].overdrawn_since # None

\* C3 as stated: a run on a negative balance with no date sets the date to
\* today, creates no fee in that invocation and returns 0, whatever the threshold.
C3_FirstRunNeverCharges ==
    [][\A a \in DOMAIN accounts :
        (RanOn(a) /\ accounts[a].money < 0 /\ accounts[a].overdrawn_since = None)
        => /\ accounts'[a].overdrawn_since = today
           /\ log' = log
           /\ last'.ret = 0 /\ ~last'.raised]_vars

\* C3 amended: such a run sets the date to today and persists it; it creates
\* no fee and returns 0 unless accrual is enabled and agios_threshold is at
\* most the whole days elapsed since that date when line 41 compares (0 days
\* unless the date rolls over during the call), in which case the fee is
\* submitted in that same invocation: with threshold 0 the first run charges.
C3_FirstRunChargesWhenDue ==
    [][\A a \in DOMAIN accounts :
        (RanOn(a) /\ accounts[a].money < 0 /\ accounts[a].overdrawn_since = None)
        => LET s == SettingsOf(accounts[a].bar)
               fee == (-accounts[a].money * s.agios_factor) \div 100
           IN /\ accounts'[a].overdrawn_since = today
              /\ IF s.agios_enabled /\ today' - today >= s.agios_threshold
                 THEN \/ last'.raised /\ log' = log
                      \/ ~last'.raised /\ Charged(a, fee) /\ last'.ret = fee
                 ELSE log' = log /\ last'.ret = 0 /\ ~last'.raised]_vars

C3_Witness ==
    /\ last.op = "apply_agios" /\ ~last.raised
    /\ last.before.money < 0 /\ last.before.overdrawn_since = None
    /\ last.ret > 0
    /\ accounts[last.account].overdrawn_since = today
    /\ SettingsOf(last.bar).agios_threshold = 0

\* C4: a run on a negative balance whose date was already set submits a fee
\* transaction (created unless the mutation service rejects it) if and only
\* if accrual is enabled and today - overdrawn_since >= agios_threshold in
\* whole days; with accrual disabled no run charges.
C4_ChargeIffDue ==
    [][\A a \in DOMAIN accounts :
        LET s == SettingsOf(accounts[a].bar)
            due == s.agios_enabled /\ today - accounts[a].overdrawn_since >= s.agios_threshold
        IN /\ (RanOn(a) /\ accounts[a].money < 0 /\ accounts[a].overdrawn_since # None)
              => /\ (Len(log') = Len(log) + 1) <=> (due /\ ~last'.raised)
                 /\ last'.raised => due
                 /\ Len(log') = Len(log) + 1 => log'[Len(log')].type = "agios"
           /\ (RanOn(a) /\ ~s.agios_enabled) => log' = log]_vars

C4_Witness ==
    /\ last.op = "apply_agios" /\ ~last.raised
    /\ last.before.money < 0 /\ last.before.overdrawn_since = 0
    /\ SettingsOf(last.bar).agios_threshold = 2
    /\ today = 2
    /\ last.ret > 0
    /\ Len(log) > 0 /\ log[Len(log)].type = "agios"

\* C5 as stated: a run that charges returns fee = abs(balance) * agios_factor,
\* lowers the balance by exactly that fee and leaves overdrawn_since
\* unchanged; a run that charges nothing returns 0 and leaves the balance.
C5_FeeLeavesDate ==
    [][\A a \in DOMAIN accounts :
        (RanOn(a) /\ ~last'.raised)
        => LET s == SettingsOf(accounts[a].bar)
               fee == (-accounts[a].money * s.agios_factor) \div 100
           IN IF log' # log
              THEN /\ accounts[a].money < 0
                   /\ Charged(a, fee)
                   /\ last'.ret = fee
                   /\ accounts'[a].money = accounts[a].money - fee
                   /\ accounts'[a].overdrawn_since = accounts[a].overdrawn_since
              ELSE /\ last'.ret = 0
                   /\ accounts'[a].money = accounts[a].money]_vars

\* C5 amended: as stated, except that overdrawn_since is unchanged by a
\* charging run only when it was set before the run; a run that finds it
\* unset and charges (threshold already met) has set it to today first.
C5_FeeAmount ==
    [][\A a \in DOMAIN accounts :
        (RanOn(a) /\ ~last'.raised)
        => LET s == SettingsOf(accounts[a].bar)
               fee == (-accounts[a].money * s.agios_factor) \div 100
           IN IF log' # log
              THEN /\ accounts[a].money < 0
                   /\ Charged(a, fee)
                   /\ last'.ret = fee
                   /\ accounts'[a].money = accounts[a].money - fee
                   /\ accounts'[a].overdrawn_since =
                          IF accounts[a].overdrawn_since # None
                          THEN accounts[a].overdrawn_since ELSE today
              ELSE /\ last'.ret = 0
                   /\ accounts'[a].money = accounts[a].money]_vars

C5_Witness ==
    /\ last.op = "apply_agios" /\ ~last.raised
    /\ last.before.money = -1000
    /\ last.before.overdrawn_since # None
    /\ SettingsOf(last.bar).agios_factor = 5
    /\ last.ret = 50
    /\ accounts[last.account].money = -1050
    /\ accounts[last.account].overdrawn_since = last.before.overdrawn_since

\* C6: a run on a balance >= 0 creates no fee, returns 0, leaves the balance,
\* and leaves overdrawn_since null (clearing and persisting a date left by an
\* earlier overdraft); a second run right after it changes nothing.
C6_NonNegativeRun ==
    [][\A a \in DOMAIN accounts :
        (RanOn(a) /\ accounts[a].money >= 0)
        => /\ log' = log
           /\ last'.ret = 0 /\ ~last'.raised
           /\ accounts'[a].money = accounts[a].money
           /\ accounts'[a].overdrawn_since = None
           /\ \A x \in DOMAIN accounts : x # a => accounts'[x] = accounts[x]
           /\ (last.op = "apply_agios" /\ last.account = a) => accounts' = accounts]_vars

C6_Witness ==
    /\ last.op = "apply_agios" /\ ~last.raised
    /\ last.before.money >= 0
    /\ last.before.overdrawn_since # None
    /\ accounts[last.account].overdrawn_since = None
    /\ accounts[last.account].money = last.before.money
    /\ last.ret = 0

\* C7: when creating the fee transaction fails, the call raises and the
\* persisted account row (overdrawn_since, balance) is as it was before the call.
C7_FailedRunLeavesState ==
    (last.op = "apply_agios" /\ last.raised) => accounts[last.account] = last.before

\* C8 as stated: a second run on the same account and date leaves the fee
\* transactions, the balance and overdrawn_since as the first run left them.
C8_SameDayIdempotent ==
    [][\A a \in DOMAIN accounts :
        (last.op = "apply_agios" /\ last.account = a /\ RanOn(a) /\ today' = today)
        => (log' = log /\ accounts' = accounts)]_vars

\* C8 amended: a second run on the same account and date leaves
\* overdrawn_since as the first run left it and creates at most one more fee
\* transaction; it leaves the balance and the log untouched exactly when
\* the fee is not due (balance >= 0, accrual disabled or threshold not
\* reached) or the charge is rejected, and otherwise charges one more fee.
C8_SameDayRepeatCharges ==
    [][\A a \in DOMAIN accounts :
        (last.op = "apply_agios" /\ last.account = a /\ RanOn(a) /\ today' = today)
        => LET s == SettingsOf(accounts[a].bar)
               fee == (-accounts[a].money * s.agios_factor) \div 100
               due == /\ accounts[a].money < 0
                      /\ s.agios_enabled
                      /\ today - accounts[a].overdrawn_since >= s.agios_threshold
           IN /\ accounts'[a].overdrawn_since = accounts[a].overdrawn_since
              /\ IF due /\ ~last'.raised
                 THEN Charged(a, fee) /\ accounts'[a].money = accounts[a].money - fee
                 ELSE log' = log /\ accounts' = accounts]_vars

C8_Witness ==
    /\ last.op = "apply_agios" /\ ~last.raised
    /\ Len(log) = 3
    /\ log[2].type = "agios" /\ log[3].type = "agios"
    /\ log[2].account = log[3].account
    /\ last.before.overdrawn_since = today

\* C9: every persisted Bar has exactly one BarSettings row; the first save
\* creates it with the default values, a later save adds no row and changes
\* no field of the existing one.
C9_OneSettingsPerBar ==
    [][/\ \A b \in bars' : Cardinality({s \in barsettings' : s.bar = b}) = 1
       /\ \A b \in Bars :
            (last'.op = "bar_save" /\ last'.bar = b)
            => IF b \in bars
               THEN barsettings' = barsettings
               ELSE barsettings' = barsettings \cup
                        {[bar |-> b, agios_enabled |-> TRUE, agios_threshold |-> 2, agios_factor |-> 5]}]_vars

C9_Witness ==
    /\ last.op = "bar_save"
    /\ last.bar \in bars
    /\ Cardinality(SettingsRows(last.bar)) = 1
    /\ SettingsOf(last.bar).agios_threshold = 0
    /\ ~SettingsOf(last.bar).agios_enabled

\* C10: at most one Account per (bar, owner), under any interleaving of
\* account creations and get_default_account calls; each get_default_account(bar)
\* returns the one account of the default user in that bar.
C10_OneAccountPerPair ==
    /\ \A a1, a2 \in DOMAIN accounts :
          (accounts[a1].bar = accounts[a2].bar /\ accounts[a1].owner = accounts[a2].owner) => a1 = a2
    /\ last.op = "get_default_account"
       => /\ last.ret \in DOMAIN accounts
          /\ accounts[last.ret].bar = last.bar
          /\ accounts[last.ret].owner = "bar"

C10_Witness ==
    /\ last.op = "get_default_account"
    /\ \E p \in Procs : pc[p] = "create" /\ snap[p].bar = last.bar
    /\ Len(accounts) = 2

\* the fee of account a is due: overdrawn, date set, accrual enabled, threshold reached
FeeDue(a) ==
    /\ accounts[a].money < 0
    /\ accounts[a].overdrawn_since # None
    /\ SettingsOf(accounts[a].bar).agios_enabled
    /\ today - accounts[a].overdrawn_since >= SettingsOf(accounts[a].bar).agios_threshold

\* C11: within one overdrawn episode with accrual enabled, charging a fee
\* never resets overdrawn_since, so once the threshold is crossed it stays
\* crossed while the balance stays negative and the settings stay as they
\* are; every run from then on creates exactly one fee transaction (unless
\* the charge is rejected), and the balance strictly decreases with each
\* such run while agios_factor > 0.
C11_EpisodeKeepsCharging ==
    [][\A a \in DOMAIN accounts :
        /\ (RanOn(a) /\ accounts[a].overdrawn_since # None /\ log' # log)
              => accounts'[a].overdrawn_since = accounts[a].overdrawn_since
        /\ (FeeDue(a) /\ accounts'[a].money < 0 /\ barsettings' = barsettings)
              => /\ accounts'[a].overdrawn_since = accounts[a].overdrawn_since
                 /\ today' - accounts'[a].overdrawn_since
                        >= SettingsOf(accounts[a].bar).agios_threshold
        /\ (FeeDue(a) /\ RanOn(a) /\ ~last'.raised)
              => /\ Len(log') = Len(log) + 1
                 /\ log'[Len(log')].type = "agios" /\ log'[Len(log')].account = a
                 /\ SubSeq(log', 1, Len(log)) = log
                 /\ accounts'[a].money <= accounts[a].money
                 /\ SettingsOf(accounts[a].bar).agios_factor > 0
                        => accounts'[a].money < accounts[a].money]_vars

C11_Witness ==
    /\ last.op = "apply_agios" /\ ~last.raised
    /\ Len(log) = 3
    /\ log[2].type = "agios" /\ log[3].type = "agios"
    /\ log[3].delta < log[2].delta /\ log[2].delta < 0
    /\ accounts[last.account].overdrawn_since = last.before.overdrawn_since
    /\ accounts[last.account].money < last.before.money
    /\ SettingsOf(last.bar).agios_factor > 0

====
